---- MODULE Spec2Model ----
(***************************************************************************)
(* The text-append service of ispeed: one Lambda handler (PUT /append,     *)
(* GET /read) over a single S3 object, with the circuit breaker of         *)
(* handleAppend, which deletes the API Gateway stage when two writes are   *)
(* closer than the threshold read from Parameter Store.                    *)
(*                                                                         *)
(* Time is in milliseconds (Date arithmetic of the handler).  Numbers read *)
(* by parseFloat are held in fixed point, as thousandths (Milli).  Text is *)
(* a sequence of one-character strings.                                    *)
(***************************************************************************)
EXTENDS Integers, Sequences, FiniteSets, Bags, TLC

VARIABLES
    now,              \* the wall clock, ms
    objExists,        \* S3: the object BUCKET_NAME/OBJECT_KEY exists
    objContent,       \* S3: its body
    objLastModified,  \* S3: its LastModified, set by S3 on every PutObject
    objLastWrite,     \* S3: its user metadata last-write, << >> when it has none
    seed,             \* the body the operator created the object with
    removed,          \* the operator has deleted the object at some time
    stageExists,      \* API Gateway: the $default stage exists (public access)
    ssmValue,         \* Parameter Store: the value of /ispeed/threshold-minutes
    reserved,         \* Lambda: reservedConcurrentExecutions (0: not set)
    inv,              \* the invocations of the handler in flight, a bag of their locals
    last,             \* the response returned last, with its request
    acked,            \* history: the appends answered 200, in commit order
    notification,     \* S3: the notification configuration of the bucket
    custom,           \* the invocation of the notification-config handler, its locals
    lifecycle         \* history: the requests of CloudFormation the handler has ended

vars == <<now, objExists, objContent, objLastModified, objLastWrite, seed, removed,
          stageExists, ssmValue, reserved, inv, last, acked,
          notification, custom, lifecycle>>

\* the state of the notification-config custom resource
customVars == <<notification, custom, lifecycle>>

\* the state of the service itself
appVars == <<now, objExists, objContent, objLastModified, objLastWrite, seed, removed,
             stageExists, ssmValue, reserved, inv, last, acked>>

----------------------------------------------------------------------------
(* Bounds of the model *)

MaxInFlight == 2
MaxCommits == 2
MaxRecords == 2
MaxGuards == 1
MaxRequests == 2
MaxTicks == 2
SkewMs == 1

(* Constants of the program *)

MsPerMinute == 1000 * 60
DefaultThresholdMinutes == 1
ReservedConcurrentExecutions == 1
GuardThresholdMinutes == 30
Milli == 1000

ClockStepMs == MsPerMinute \div 2
\* the handler's clock is the store's, or lags it by SkewMs
ClockSkews == {0 - SkewMs, 0}

NL == "\n"
\* headResponse.Metadata without last-write
NoLastWrite == << >>
Payloads == {<< >>, <<"a">>}
\* created empty, or with a line of initial content
InitialContents == {<< >>, <<"é", NL>>}
ParamValues == {<<"1">>, <<"0", ".", "5">>, <<"x">>}
\* values the check of getThresholdMinutes turns down: not a number, empty,
\* zero, negative
InvalidParamValues == {<<"x">>, << >>, <<"0">>, <<"-", "1">>}

\* every method on every path, for the routing
Methods == {"GET", "PUT", "POST", "DELETE"}
Paths == {"/append", "/read", "/"}
AnyRequests == [method : Methods, path : Paths, body : {<<"a">>}]

Requests ==
    [method : {"PUT"}, path : {"/append"}, body : Payloads]
        \cup {[method |-> "GET", path |-> "/read", body |-> << >>],
              [method |-> "GET", path |-> "/append", body |-> << >>]}

----------------------------------------------------------------------------
(* parseFloat, on the decimal notations of ParamValues: an optional sign,  *)
(* digits, an optional point and digits; it stops at the first character   *)
(* that fits no number and yields NaN when no digit was read.              *)

Digits == {"0", "1", "2", "3", "4", "5", "6", "7", "8", "9"}

DigitVal(c) ==
    CASE c = "0" -> 0 [] c = "1" -> 1 [] c = "2" -> 2 [] c = "3" -> 3
      [] c = "4" -> 4 [] c = "5" -> 5 [] c = "6" -> 6 [] c = "7" -> 7
      [] c = "8" -> 8 [] c = "9" -> 9

RECURSIVE DigitRun(_)
DigitRun(s) ==
    IF s = << >> \/ Head(s) \notin Digits
    THEN << >>
    ELSE <<Head(s)>> \o DigitRun(Tail(s))

RECURSIVE DigitsValue(_)
DigitsValue(s) ==
    IF s = << >>
    THEN 0
    ELSE DigitsValue(SubSeq(s, 1, Len(s) - 1)) * 10 + DigitVal(s[Len(s)])

\* the fraction digits f as thousandths
FractionMilli(f) ==
    LET d(k) == IF k <= Len(f) THEN DigitVal(f[k]) ELSE 0
    IN  d(1) * 100 + d(2) * 10 + d(3)

parseFloat(s) ==
    LET signed == s # << >> /\ Head(s) \in {"-", "+"}
        neg == s # << >> /\ Head(s) = "-"
        t == IF signed THEN Tail(s) ELSE s
        ip == DigitRun(t)
        rest == SubSeq(t, Len(ip) + 1, Len(t))
        fp == IF rest # << >> /\ Head(rest) = "." THEN DigitRun(Tail(rest)) ELSE << >>
        mag == DigitsValue(ip) * Milli + FractionMilli(fp)
    IN  [nan |-> (ip = << >> /\ fp = << >>),
         milli |-> IF neg THEN 0 - mag ELSE mag]

----------------------------------------------------------------------------
(* getThresholdMinutes: the threshold in thousandths of a minute.          *)
(* outcome is what ssmClient.send did: "ok" or "error" (it threw).         *)

\* the value of Parameter Store taken as it parses, with no check of it
getThresholdMinutesUnchecked(outcome, value) ==
    IF outcome = "ok"
    THEN LET v == parseFloat(value)
         IN  IF v.nan THEN 0 ELSE v.milli
    ELSE DefaultThresholdMinutes * Milli

getThresholdMinutes(outcome, value) ==
    IF outcome = "ok"
    THEN LET v == parseFloat(value)
         IN  IF v.nan \/ v.milli <= 0
             THEN DefaultThresholdMinutes * Milli
             ELSE v.milli
    ELSE DefaultThresholdMinutes * Milli

\* the elapsed time cut to whole minutes before the comparison
ThresholdBreachedTruncated(currentTime, lastModified, thresholdMilli) ==
    ((currentTime - lastModified) \div MsPerMinute) * Milli < thresholdMilli

\* the gate with the boundary on the wrong side: <= for <
ThresholdBreachedInclusive(currentTime, lastModified, thresholdMilli) ==
    (currentTime - lastModified) * Milli <= thresholdMilli * MsPerMinute

\* diffMinutes < THRESHOLD_MINUTES, with diffMinutes = diffMs / (1000 * 60)
ThresholdBreached(currentTime, lastModified, thresholdMilli) ==
    (currentTime - lastModified) * Milli < thresholdMilli * MsPerMinute

\* an append in place: the store's content at the write, not the content read
UpdatedContentInPlace(existingContent, textToAppend) ==
    objContent \o textToAppend \o <<NL>>

\* the append with no separator after the text
UpdatedContentUnseparated(existingContent, textToAppend) ==
    existingContent \o textToAppend

\* the upload that forgets what was read
UpdatedContentOverwrite(existingContent, textToAppend) ==
    textToAppend \o <<NL>>

\* updatedContent = existingContent + textToAppend + "\n"
UpdatedContent(existingContent, textToAppend) ==
    existingContent \o textToAppend \o <<NL>>

----------------------------------------------------------------------------
(* The body of the object on the wire.  PutObject stores the string in     *)
(* UTF-8, GetObject streams the bytes back in chunks, streamToString puts  *)
(* the chunks together and decodes them.                                   *)

Replacement == "\\uFFFD"

\* the UTF-8 bytes of a character of the texts of the model
Utf8Bytes(c) ==
    CASE c = "a" -> <<97>>
      [] c = NL -> <<10>>
      [] c = "é" -> <<195, 169>>

RECURSIVE Utf8Encode(_)
Utf8Encode(text) ==
    IF text = << >>
    THEN << >>
    ELSE Utf8Bytes(Head(text)) \o Utf8Encode(Tail(text))

\* Buffer.toString("utf-8"): a byte that is no part of a character decodes
\* to the replacement character
RECURSIVE toString(_)
toString(bytes) ==
    IF bytes = << >>
    THEN << >>
    ELSE IF Head(bytes) = 97 THEN <<"a">> \o toString(Tail(bytes))
    ELSE IF Head(bytes) = 10 THEN <<NL>> \o toString(Tail(bytes))
    ELSE IF Head(bytes) = 195 /\ Len(bytes) >= 2 /\ bytes[2] = 169
         THEN <<"é">> \o toString(Tail(Tail(bytes)))
    ELSE <<Replacement>> \o toString(Tail(bytes))

\* Buffer.concat(chunks)
RECURSIVE concat(_)
concat(chunks) ==
    IF chunks = << >>
    THEN << >>
    ELSE Head(chunks) \o concat(Tail(chunks))

\* every chunk decoded by itself
RECURSIVE streamToStringPerChunk(_)
streamToStringPerChunk(stream) ==
    IF stream = << >>
    THEN << >>
    ELSE toString(Head(stream)) \o streamToStringPerChunk(Tail(stream))

streamToString(stream) == toString(concat(stream))

\* getResponse.Body: the bytes of the content in two chunks, cut after k bytes
BodyStream(content, k) ==
    LET bytes == Utf8Encode(content)
    IN  <<SubSeq(bytes, 1, k), SubSeq(bytes, k + 1, Len(bytes))>>

BodyCuts(content) == 0 .. Len(Utf8Encode(content))

----------------------------------------------------------------------------
(* Responses.  A body is held as its message and the parts spliced in.     *)

Response(status, msg, text, minutes) ==
    [status |-> status, msg |-> msg, text |-> text, minutes |-> minutes]

\* a request and the response it got; admitted: the handler was invoked
\* log: what console.log and console.error said of the DeleteStage call
Returned(req, admitted, calls, log, resp) ==
    [method |-> req.method, path |-> req.path, body |-> req.body,
     admitted |-> admitted, calls |-> calls, log |-> log, resp |-> resp]

NoRequest == [method |-> "", path |-> "", body |-> << >>]
Nothing == Returned(NoRequest, FALSE, << >>, "", Response(0, "", << >>, 0))

\* the locals of an invocation of handleAppend or handleRead
NewInvocation(req, pc) ==
    [method |-> req.method, path |-> req.path, body |-> req.body, pc |-> pc,
     threshold |-> 0, lastModified |-> 0, currentTime |-> 0,
     existingContent |-> << >>, calls |-> << >>]

\* the routing that looks at the path alone
RouteByPath(req) ==
    IF req.path = "/append" THEN "ssm"
    ELSE IF req.path = "/read" THEN "read"
    ELSE "done"

\* pc at which the handler first suspends, per route
Route(req) ==
    IF req.method = "PUT" /\ req.path = "/append" THEN "ssm"
    ELSE IF req.method = "GET" /\ req.path = "/read" THEN "read"
    ELSE "done"

One(r) == SetToBag({r})

\* the invocation with locals r returns resp after a last call
Finish(r, call, log, resp) ==
    /\ inv' = inv (-) One(r)
    /\ last' = Returned(r, TRUE, r.calls \o call, log, resp)

\* the invocation with locals r goes on to pc after a call
Continue(r, call, pc, locals) ==
    /\ inv' = (inv (-) One(r)) (+) One([locals EXCEPT !.pc = pc, !.calls = @ \o call])
    /\ UNCHANGED last

----------------------------------------------------------------------------
(* The bucket's notification configuration and the locals of the           *)
(* notification-config handler (lambda/s3-notification-config).            *)

\* event.ResourceProperties.LambdaArn, and the ARN of another function
GuardArn == "arn:guard"
OtherArn == "arn:other"

\* a Lambda entry of the configuration; an Id is a name and a number
LambdaConfig(id, arn) == [Id |-> id, LambdaFunctionArn |-> arn]

NotificationConfiguration(lambdas, topics, queues) ==
    [LambdaFunctionConfigurations |-> lambdas,
     TopicConfigurations |-> topics,
     QueueConfigurations |-> queues]

\* currentConfig = {}: every list of it is taken as []
NoConfiguration == NotificationConfiguration(<< >>, << >>, << >>)

\* no request of CloudFormation is being handled
Idle ==
    [type |-> "", pc |-> "idle", currentConfig |-> NoConfiguration,
     newId |-> <<"", 0>>, got |-> "", put |-> FALSE, sent |-> << >>,
     before |-> NoConfiguration]

\* the stack of the custom resource is not deployed
NoCustomResource ==
    /\ notification = NoConfiguration
    /\ custom = Idle
    /\ lifecycle = << >>

----------------------------------------------------------------------------

Init ==
    /\ now = 0
    /\ NoCustomResource
    /\ objExists = FALSE
    /\ objContent = << >>
    /\ objLastModified = 0
    /\ objLastWrite = NoLastWrite
    /\ seed = << >>
    /\ removed = FALSE
    /\ stageExists = TRUE
    /\ ssmValue = <<"1">>
    /\ reserved = ReservedConcurrentExecutions
    /\ inv = EmptyBag
    /\ last = Nothing
    /\ acked = << >>

Tick ==
    /\ now < MaxTicks * ClockStepMs
    /\ now' = now + ClockStepMs
    /\ UNCHANGED <<customVars, objLastWrite, objExists, objContent, objLastModified, seed,
                   removed, stageExists, ssmValue, reserved, inv, last, acked>>

----------------------------------------------------------------------------
(* The operator, out of band *)

\* aws s3 cp: the object is created once, before first use
CreateObject(c) ==
    /\ ~objExists /\ ~removed
    /\ objExists' = TRUE
    /\ objContent' = c
    /\ objLastModified' = now
    /\ seed' = c
    /\ objLastWrite' = NoLastWrite
    /\ UNCHANGED <<now, customVars, removed, stageExists, ssmValue, reserved, inv, last, acked>>

RemoveObject ==
    /\ objExists
    /\ objExists' = FALSE
    /\ objContent' = << >>
    /\ objLastModified' = 0
    /\ removed' = TRUE
    /\ objLastWrite' = NoLastWrite
    /\ UNCHANGED <<now, customVars, seed, stageExists, ssmValue, reserved, inv, last, acked>>

\* aws apigatewayv2 create-stage: the recovery procedure
CreateStage ==
    /\ ~stageExists
    /\ stageExists' = TRUE
    /\ UNCHANGED <<now, customVars, objLastWrite, objExists, objContent, objLastModified, seed, removed,
                   ssmValue, reserved, inv, last, acked>>

\* the value of the ThresholdParameter is changed in Parameter Store
PutParameter(v) ==
    /\ v # ssmValue
    /\ ssmValue' = v
    /\ UNCHANGED <<now, customVars, objLastWrite, objExists, objContent, objLastModified, seed, removed,
                   stageExists, reserved, inv, last, acked>>

----------------------------------------------------------------------------
(* API Gateway and the Lambda service: admission of a request *)

Running == BagCardinality(inv)

\* the requests still reach the handler after the stage is deleted
AdmissibleWithoutStage ==
    IF reserved = 0 THEN Running < MaxInFlight ELSE Running < reserved

\* the Lambda service with the reservation ignored
AdmissibleUnreserved ==
    /\ stageExists
    /\ Running < MaxInFlight

Admissible ==
    /\ stageExists
    /\ IF reserved = 0 THEN Running < MaxInFlight ELSE Running < reserved

\* the handler is invoked; a request of no route is answered at once
Invoke(req) ==
    /\ Admissible
    /\ IF Route(req) = "done"
       THEN /\ last' = Returned(req, TRUE, << >>, "", Response(404, "Not Found", << >>, 0))
            /\ UNCHANGED inv
       ELSE /\ inv' = inv (+) One(NewInvocation(req, Route(req)))
            /\ UNCHANGED last
    /\ UNCHANGED <<now, customVars, objLastWrite, objExists, objContent, objLastModified, seed, removed,
                   stageExists, ssmValue, reserved, acked>>

\* the stage is deleted: API Gateway answers, the handler is not invoked
Unrouted(req) ==
    /\ ~stageExists
    /\ last' = Returned(req, FALSE, << >>, "", Response(404, "no stage", << >>, 0))
    /\ UNCHANGED <<now, customVars, objLastWrite, objExists, objContent, objLastModified, seed, removed,
                   stageExists, ssmValue, reserved, inv, acked>>

\* the reserved concurrency is used up: the Lambda service throttles
Throttled(req) ==
    /\ stageExists
    /\ reserved # 0
    /\ Running >= reserved
    /\ last' = Returned(req, FALSE, << >>, "", Response(429, "throttled", << >>, 0))
    /\ UNCHANGED <<now, customVars, objLastWrite, objExists, objContent, objLastModified, seed, removed,
                   stageExists, ssmValue, reserved, inv, acked>>

----------------------------------------------------------------------------
(* handleAppend, one action per await *)

\* the threshold kept from the request before: the value of the last 503
\* is used again and Parameter Store is not asked
GetThresholdCached(r, outcome) ==
    /\ r.pc = "ssm"
    /\ Continue(r, <<"GetParameter">>, "head",
                [r EXCEPT !.threshold =
                     IF last.resp.minutes # 0
                     THEN last.resp.minutes
                     ELSE getThresholdMinutes(outcome, ssmValue)])
    /\ UNCHANGED <<now, customVars, objLastWrite, objExists, objContent, objLastModified, seed, removed,
                   stageExists, ssmValue, reserved, acked>>

\* const THRESHOLD_MINUTES = await getThresholdMinutes()
GetThreshold(r, outcome) ==
    /\ r.pc = "ssm"
    /\ Continue(r, <<"GetParameter">>, "head",
                [r EXCEPT !.threshold = getThresholdMinutes(outcome, ssmValue)])
    /\ UNCHANGED <<now, customVars, objLastWrite, objExists, objContent, objLastModified, seed, removed,
                   stageExists, ssmValue, reserved, acked>>

\* a missing object taken as never written: the append goes on and creates it
HeadObjectAutoCreate(r, outcome) ==
    /\ r.pc = "head"
    /\ IF outcome = "error"
       THEN Finish(r, <<"HeadObject">>, "", Response(500, "Error", << >>, 0))
       ELSE IF ~objExists
       THEN Continue(r, <<"HeadObject", "GetObject">>, "put", r)
       ELSE Continue(r, <<"HeadObject">>, "gate",
                     [r EXCEPT !.lastModified = objLastModified])
    /\ UNCHANGED <<now, customVars, objLastWrite, objExists, objContent, objLastModified, seed, removed,
                   stageExists, ssmValue, reserved, acked>>

\* the probe sent a second time when it failed
HeadObjectRetry(r, outcome) ==
    /\ r.pc = "head"
    /\ IF outcome = "error"
       THEN IF r.calls[Len(r.calls)] = "HeadObject"
            THEN Finish(r, <<"HeadObject">>, "", Response(500, "Error", << >>, 0))
            ELSE Continue(r, <<"HeadObject">>, "head", r)
       ELSE IF ~objExists
       THEN Finish(r, <<"HeadObject">>, "",
                   Response(404, "does not exist, create it first", << >>, 0))
       ELSE Continue(r, <<"HeadObject">>, "gate",
                     [r EXCEPT !.lastModified = objLastModified])
    /\ UNCHANGED <<now, customVars, objLastWrite, objExists, objContent, objLastModified, seed, removed,
                   stageExists, ssmValue, reserved, acked>>

\* await s3Client.send(headCommand)
HeadObject(r, outcome) ==
    /\ r.pc = "head"
    /\ IF outcome = "error"
       THEN Finish(r, <<"HeadObject">>, "", Response(500, "Error", << >>, 0))
       ELSE IF ~objExists
       THEN Finish(r, <<"HeadObject">>, "",
                   Response(404, "does not exist, create it first", << >>, 0))
       ELSE Continue(r, <<"HeadObject">>, "gate",
                     [r EXCEPT !.lastModified = objLastModified])
    /\ UNCHANGED <<now, customVars, objLastWrite, objExists, objContent, objLastModified, seed, removed,
                   stageExists, ssmValue, reserved, acked>>

\* the stage deleted ahead of the comparison
GateDisables(r, skew) ==
    /\ r.pc = "gate"
    /\ LET currentTime == now + skew
       IN  Continue(r, << >>,
                    IF ThresholdBreached(currentTime, r.lastModified, r.threshold)
                    THEN "delete"
                    ELSE "get",
                    [r EXCEPT !.currentTime = currentTime])
    /\ stageExists' = FALSE
    /\ UNCHANGED <<now, customVars, objLastWrite, objExists, objContent, objLastModified, seed, removed,
                   ssmValue, reserved, acked>>

\* currentTime = new Date(); if (diffMinutes < THRESHOLD_MINUTES)
Gate(r, skew) ==
    /\ r.pc = "gate"
    /\ LET currentTime == now + skew
       IN  Continue(r, << >>,
                    IF ThresholdBreached(currentTime, r.lastModified,
                                         r.threshold)
                    THEN "delete"
                    ELSE "get",
                    [r EXCEPT !.currentTime = currentTime])
    /\ UNCHANGED <<now, customVars, objLastWrite, objExists, objContent, objLastModified, seed, removed,
                   stageExists, ssmValue, reserved, acked>>

\* the call that flips the stage: issued on a deleted stage it brings it back
DeleteStageToggle(r, outcome) ==
    /\ r.pc = "delete"
    /\ stageExists' = IF outcome = "ok" THEN ~stageExists ELSE stageExists
    /\ Finish(r, <<"DeleteStage">>,
              IF outcome = "ok"
              THEN "Successfully deleted stage"
              ELSE "Error deleting API stage",
              Response(503, "Circuit breaker activated", << >>, r.threshold))
    /\ UNCHANGED <<now, customVars, objLastWrite, objExists, objContent, objLastModified, seed, removed,
                   ssmValue, reserved, acked>>

\* the trip that also stamps the object
DeleteStageTouch(r, outcome) ==
    /\ r.pc = "delete"
    /\ stageExists' = IF outcome = "ok" THEN FALSE ELSE stageExists
    /\ objLastModified' = now
    /\ Finish(r, <<"DeleteStage">>,
              IF outcome = "ok"
              THEN "Successfully deleted stage"
              ELSE "Error deleting API stage",
              Response(503, "Circuit breaker activated", << >>, r.threshold))
    /\ UNCHANGED <<now, customVars, objLastWrite, objExists, objContent, seed, removed,
                   ssmValue, reserved, acked>>

\* the DeleteStage call outside a try/catch: its failure reaches the handler's catch
DeleteStagePropagates(r, outcome) ==
    /\ r.pc = "delete"
    /\ stageExists' = IF outcome = "ok" THEN FALSE ELSE stageExists
    /\ IF outcome = "ok"
       THEN Finish(r, <<"DeleteStage">>, "Successfully deleted stage",
                   Response(503, "Circuit breaker activated", << >>, r.threshold))
       ELSE Finish(r, <<"DeleteStage">>, "", Response(500, "Error", << >>, 0))
    /\ UNCHANGED <<now, customVars, objLastWrite, objExists, objContent, objLastModified, seed, removed,
                   ssmValue, reserved, acked>>

\* the message with the default of 1 minute written into it
DeleteStageDefaultMessage(r, outcome) ==
    /\ r.pc = "delete"
    /\ stageExists' = IF outcome = "ok" THEN FALSE ELSE stageExists
    /\ Finish(r, <<"DeleteStage">>,
              IF outcome = "ok"
              THEN "Successfully deleted stage"
              ELSE "Error deleting API stage",
              Response(503, "Circuit breaker activated", << >>,
                       DefaultThresholdMinutes * Milli))
    /\ UNCHANGED <<now, customVars, objLastWrite, objExists, objContent, objLastModified, seed, removed,
                   ssmValue, reserved, acked>>

\* the message with the guard's constant of 30 minutes in it
DeleteStageThirty(r, outcome) ==
    /\ r.pc = "delete"
    /\ stageExists' = IF outcome = "ok" THEN FALSE ELSE stageExists
    /\ Finish(r, <<"DeleteStage">>,
              IF outcome = "ok"
              THEN "Successfully deleted stage"
              ELSE "Error deleting API stage",
              Response(503, "Circuit breaker activated", << >>, 30 * Milli))
    /\ UNCHANGED <<now, customVars, objLastWrite, objExists, objContent, objLastModified, seed, removed,
                   ssmValue, reserved, acked>>

\* await apiGatewayClient.send(deleteCommand), in its try/catch; return 503
DeleteStage(r, outcome) ==
    /\ r.pc = "delete"
    /\ stageExists' = IF outcome = "ok" THEN FALSE ELSE stageExists
    /\ Finish(r, <<"DeleteStage">>,
              IF outcome = "ok"
              THEN "Successfully deleted stage"
              ELSE "Error deleting API stage",
              Response(503, "Circuit breaker activated", << >>, r.threshold))
    /\ UNCHANGED <<now, customVars, objLastWrite, objExists, objContent, objLastModified, seed, removed,
                   ssmValue, reserved, acked>>

\* a missing object read as an empty one: the append goes on and the upload
\* creates the object again
GetObjectAutoCreate(r, outcome) ==
    /\ r.pc = "get"
    /\ IF outcome = "error"
       THEN Finish(r, <<"GetObject">>, "", Response(500, "Error", << >>, 0))
       ELSE IF ~objExists
       THEN Continue(r, <<"GetObject">>, "put", [r EXCEPT !.existingContent = << >>])
       ELSE \E k \in BodyCuts(objContent) :
                Continue(r, <<"GetObject">>, "put",
                         [r EXCEPT !.existingContent =
                                       streamToString(BodyStream(objContent, k))])
    /\ UNCHANGED <<now, customVars, objLastWrite, objExists, objContent, objLastModified, seed, removed,
                   stageExists, ssmValue, reserved, acked>>

\* a failed read taken as an empty object: existingContent keeps its ""
GetObjectEmptyOnError(r, outcome) ==
    /\ r.pc = "get"
    /\ IF outcome = "error"
       THEN Continue(r, <<"GetObject">>, "put", [r EXCEPT !.existingContent = << >>])
       ELSE IF ~objExists
       THEN Finish(r, <<"GetObject">>, "",
                   Response(404, "does not exist, create it first", << >>, 0))
       ELSE Continue(r, <<"GetObject">>, "put",
                     [r EXCEPT !.existingContent = objContent])
    /\ UNCHANGED <<now, customVars, objLastWrite, objExists, objContent, objLastModified, seed, removed,
                   stageExists, ssmValue, reserved, acked>>

\* await s3Client.send(getCommand); streamToString
GetObject(r, outcome) ==
    /\ r.pc = "get"
    /\ IF outcome = "error"
       THEN Finish(r, <<"GetObject">>, "", Response(500, "Error", << >>, 0))
       ELSE IF ~objExists
       THEN Finish(r, <<"GetObject">>, "",
                   Response(404, "does not exist, create it first", << >>, 0))
       ELSE \E k \in BodyCuts(objContent) :
                Continue(r, <<"GetObject">>, "put",
                         [r EXCEPT !.existingContent =
                                       streamToString(BodyStream(objContent, k))])
    /\ UNCHANGED <<now, customVars, objLastWrite, objExists, objContent, objLastModified, seed, removed,
                   stageExists, ssmValue, reserved, acked>>

\* the upload whose failure is not looked at: 200 whether it was stored or not
PutObjectUnchecked(r, outcome) ==
    /\ r.pc = "put"
    /\ IF outcome = "error"
       THEN /\ Finish(r, <<"PutObject">>, "",
                      Response(200, "Text appended successfully", << >>, 0))
            /\ UNCHANGED <<objExists, objContent, objLastModified, objLastWrite, acked>>
       ELSE /\ objExists' = TRUE
            /\ objLastWrite' = NoLastWrite
            /\ objContent' = UpdatedContent(r.existingContent, r.body)
            /\ objLastModified' = now
            /\ acked' = Append(acked, [body |-> r.body,
                                       probed |-> r.lastModified])
            /\ Finish(r, <<"PutObject">>, "",
                      Response(200, "Text appended successfully", << >>, 0))
    /\ UNCHANGED <<now, customVars, seed, removed, stageExists, ssmValue, reserved>>

\* the upload stamped by the handler: the object's time is the handler's
PutObjectStamped(r, outcome) ==
    /\ r.pc = "put"
    /\ IF outcome = "error"
       THEN /\ Finish(r, <<"PutObject">>, "", Response(500, "Error", << >>, 0))
            /\ UNCHANGED <<objExists, objContent, objLastModified, objLastWrite, acked>>
       ELSE /\ objExists' = TRUE
            /\ objLastWrite' = NoLastWrite
            /\ objContent' = UpdatedContent(r.existingContent, r.body)
            /\ objLastModified' = r.currentTime
            /\ acked' = Append(acked, [body |-> r.body,
                                       probed |-> r.lastModified])
            /\ Finish(r, <<"PutObject">>, "",
                      Response(200, "Text appended successfully", << >>, 0))
    /\ UNCHANGED <<now, customVars, seed, removed, stageExists, ssmValue, reserved>>

\* the upload in two parts: the text first, the newline in a second call
PutObjectInParts(r, outcome) ==
    /\ r.pc = "put"
    /\ IF outcome = "error"
       THEN /\ Finish(r, <<"PutObject">>, "", Response(500, "Error", << >>, 0))
            /\ UNCHANGED <<objExists, objContent, objLastModified, objLastWrite, acked>>
       ELSE IF r.body # << >> /\ objContent # r.existingContent \o r.body
       THEN /\ objExists' = TRUE
            /\ objLastWrite' = NoLastWrite
            /\ objContent' = r.existingContent \o r.body
            /\ objLastModified' = now
            /\ UNCHANGED <<inv, last, acked>>
       ELSE /\ objExists' = TRUE
            /\ objLastWrite' = NoLastWrite
            /\ objContent' = UpdatedContent(r.existingContent, r.body)
            /\ objLastModified' = now
            /\ acked' = Append(acked, [body |-> r.body,
                                       probed |-> r.lastModified])
            /\ Finish(r, <<"PutObject">>, "",
                      Response(200, "Text appended successfully", << >>, 0))
    /\ UNCHANGED <<now, customVars, seed, removed, stageExists, ssmValue, reserved>>

\* await s3Client.send(putCommand); return 200
PutObject(r, outcome) ==
    /\ r.pc = "put"
    /\ IF outcome = "error"
       THEN /\ Finish(r, <<"PutObject">>, "", Response(500, "Error", << >>, 0))
            /\ UNCHANGED <<objExists, objContent, objLastModified, objLastWrite, acked>>
       ELSE /\ objExists' = TRUE
            /\ objLastWrite' = NoLastWrite
            /\ objContent' = UpdatedContent(r.existingContent, r.body)
            /\ objLastModified' = now
            /\ acked' = Append(acked, [body |-> r.body,
                                       probed |-> r.lastModified])
            /\ Finish(r, <<"PutObject">>, "",
                      Response(200, "Text appended successfully", << >>, 0))
    /\ UNCHANGED <<now, customVars, seed, removed, stageExists, ssmValue, reserved>>

----------------------------------------------------------------------------
(* handleRead *)

\* a read put behind the gate of the appends: it trips on a recent write
ReadObjectGated(r, outcome) ==
    /\ r.pc = "read"
    /\ IF objExists /\ ThresholdBreached(now, objLastModified,
                                          getThresholdMinutes(outcome, ssmValue))
       THEN /\ stageExists' = FALSE
            /\ Finish(r, <<"GetParameter", "HeadObject", "DeleteStage">>,
                      "Successfully deleted stage",
                      Response(503, "Circuit breaker activated", << >>,
                               getThresholdMinutes(outcome, ssmValue)))
       ELSE /\ UNCHANGED stageExists
            /\ Finish(r, <<"GetObject">>, "", Response(200, "content", objContent, 0))
    /\ UNCHANGED <<now, customVars, objLastWrite, objExists, objContent, objLastModified, seed, removed,
                   ssmValue, reserved, acked>>

\* the read that keeps the content of the read before in the module and
\* returns it again
ReadObjectMemo(r, outcome) ==
    /\ r.pc = "read"
    /\ IF last.method = "GET" /\ last.path = "/read" /\ last.resp.status = 200
       THEN Finish(r, <<"GetObject">>, "", last.resp)
       ELSE IF outcome = "error"
       THEN Finish(r, <<"GetObject">>, "", Response(500, "Error", << >>, 0))
       ELSE IF ~objExists
       THEN Finish(r, <<"GetObject">>, "", Response(404, "does not exist", << >>, 0))
       ELSE \E k \in BodyCuts(objContent) :
                Finish(r, <<"GetObject">>, "",
                       Response(200, "content",
                                streamToString(BodyStream(objContent, k)), 0))
    /\ UNCHANGED <<now, customVars, objLastWrite, objExists, objContent, objLastModified, seed, removed,
                   stageExists, ssmValue, reserved, acked>>

ReadObject(r, outcome) ==
    /\ r.pc = "read"
    /\ IF outcome = "error"
       THEN Finish(r, <<"GetObject">>, "", Response(500, "Error", << >>, 0))
       ELSE IF ~objExists
       THEN Finish(r, <<"GetObject">>, "", Response(404, "does not exist", << >>, 0))
       ELSE \E k \in BodyCuts(objContent) :
                Finish(r, <<"GetObject">>, "",
                       Response(200, "content",
                                streamToString(BodyStream(objContent, k)), 0))
    /\ UNCHANGED <<now, customVars, objLastWrite, objExists, objContent, objLastModified, seed, removed,
                   stageExists, ssmValue, reserved, acked>>

----------------------------------------------------------------------------
Outcomes == {"ok", "error"}

Operator ==
    \/ \E c \in InitialContents : CreateObject(c)
    \/ RemoveObject
    \/ CreateStage
    \/ \E v \in ParamValues : PutParameter(v)

Gateway ==
    \/ \E req \in Requests : Invoke(req)
    \/ \E req \in Requests : Unrouted(req)
    \/ \E req \in Requests : Throttled(req)

Handler ==
    \/ \E r \in BagToSet(inv), o \in Outcomes : GetThreshold(r, o)
    \/ \E r \in BagToSet(inv), o \in Outcomes : HeadObject(r, o)
    \/ \E r \in BagToSet(inv), k \in ClockSkews : Gate(r, k)
    \/ \E r \in BagToSet(inv), o \in Outcomes : DeleteStage(r, o)
    \/ \E r \in BagToSet(inv), o \in Outcomes : GetObject(r, o)
    \/ \E r \in BagToSet(inv), o \in Outcomes : PutObject(r, o)
    \/ \E r \in BagToSet(inv), o \in Outcomes : ReadObject(r, o)

Next == Tick \/ Operator \/ Gateway \/ Handler

Spec == Init /\ [][Next]_vars

----------------------------------------------------------------------------
(* A call that never returns.  The clients are built with a region and no  *)
(* request timeout, so the await of such a call never resumes; what ends   *)
(* the invocation is the timeout of the function, and the response is API  *)
(* Gateway's.                                                              *)

\* the call awaited at pc
CallAt(pc) ==
    CASE pc = "ssm" -> "GetParameter"
      [] pc = "head" -> "HeadObject"
      [] pc = "delete" -> "DeleteStage"
      [] pc \in {"get", "read"} -> "GetObject"
      [] pc = "put" -> "PutObject"

\* the call of r is sent and its answer never comes; applied: the service
\* carried it out all the same
Hang(r, applied) ==
    /\ r.pc \in {"ssm", "head", "delete", "get", "put", "read"}
    /\ Continue(r, <<CallAt(r.pc)>>, "hung", r)
    /\ IF applied /\ r.pc = "put"
       THEN /\ objExists' = TRUE
            /\ objContent' = UpdatedContent(r.existingContent, r.body)
            /\ objLastModified' = now
            /\ objLastWrite' = NoLastWrite
       ELSE UNCHANGED <<objExists, objContent, objLastModified, objLastWrite>>
    /\ stageExists' = IF applied /\ r.pc = "delete" THEN FALSE ELSE stageExists
    /\ UNCHANGED <<now, customVars, seed, removed, ssmValue, reserved, acked>>

\* what API Gateway answers for an invocation that was ended
GatewayErrors == {500, 503}

\* timeout: Duration.seconds(30): the invocation is ended where it hangs
Timeout(r, status) ==
    /\ r.pc = "hung"
    /\ Finish(r, << >>, "", Response(status, "Task timed out", << >>, 0))
    /\ UNCHANGED <<now, customVars, objLastWrite, objExists, objContent, objLastModified, seed, removed,
                   stageExists, ssmValue, reserved, acked>>

NextHang ==
    \/ Tick
    \/ CreateObject(<< >>)
    \/ Gateway
    \/ Handler
    \/ \E r \in BagToSet(inv), applied \in BOOLEAN : Hang(r, applied)
    \/ \E r \in BagToSet(inv), status \in GatewayErrors : Timeout(r, status)

SpecHang == Init /\ [][NextHang]_vars

----------------------------------------------------------------------------
(* The two-stack architecture.  The App Lambda reads, appends and uploads  *)
(* with the metadata last-write set to its current time, and checks        *)
(* nothing; S3 sends an ObjectCreated event for the upload to the Guard    *)
(* Lambda, which runs afterwards, by itself.                               *)

\* Date.toISOString(), as seconds and milliseconds; new Date(string)
toISOString(t) == <<t \div 1000, t % 1000>>
DateOf(iso) == iso[1] * 1000 + iso[2]

AppendRequests == [method : {"PUT"}, path : {"/append"}, body : Payloads]

\* the records of an S3 event, by what the guard does with them: an
\* ObjectCreated record, a record of another event, and an ObjectCreated
\* record whose key decodeURIComponent rejects
Created == "ObjectCreated:Put"
Other == "ObjectRemoved:Delete"
BadKey == "ObjectCreated:Put %"

\* an event: its Records, or no Records at all
GuardEvent(iterable, records) ==
    [method |-> "S3", path |-> IF iterable THEN "Records" ELSE "undefined",
     body |-> records]

\* the invocation of the Guard Lambda for the event of one upload
GuardInvocation == NewInvocation(GuardEvent(TRUE, <<Created>>), "ghead")

\* return { statusCode: 200 }, return { statusCode: 500 } of the catch
GuardResult(status) ==
    Response(status, IF status = 200 THEN "Guard check completed" ELSE "Error",
             << >>, 0)

\* the for loop from the record at the head of records on, as far as the
\* next await: records of other events are passed over, a key that does
\* not decode throws
RECURSIVE GuardLoop(_)
GuardLoop(records) ==
    IF records = << >> THEN [status |-> 200, body |-> << >>]
    ELSE IF Head(records) = Other THEN GuardLoop(Tail(records))
    ELSE IF Head(records) = BadKey THEN [status |-> 500, body |-> records]
    ELSE [status |-> 0, body |-> records]

\* the guard g returns status after call, with the records left
GuardReturn(g, call, status, records) ==
    /\ inv' = inv (-) One(g)
    /\ last' = Returned([g EXCEPT !.body = records], TRUE, g.calls \o call, "",
                        GuardResult(status))

\* the guard g is through with the record at the head of its records
GuardResume(g, call) ==
    LET p == GuardLoop(Tail(g.body))
    IN  IF p.status # 0
        THEN GuardReturn(g, call, p.status, p.body)
        ELSE Continue(g, call, "ghead", [g EXCEPT !.body = p.body])

IsGuard(r) == r.method = "S3"

\* the invocations of the App Lambda in flight
AppRunning ==
    BagCardinality([r \in {q \in BagToSet(inv) : ~IsGuard(q)} |-> CopiesIn(r, inv)])

InvokeAsync(req) ==
    /\ stageExists
    /\ AppRunning < ReservedConcurrentExecutions
    /\ Running < MaxInFlight
    /\ Len(acked) < MaxCommits
    /\ inv' = inv (+) One(NewInvocation(req, "aget"))
    /\ UNCHANGED <<now, customVars, objExists, objContent, objLastModified, objLastWrite, seed,
                   removed, stageExists, ssmValue, reserved, last, acked>>

\* App Lambda: read the S3 object
AsyncGetObject(r, outcome) ==
    /\ r.pc = "aget"
    /\ IF outcome = "error"
       THEN Finish(r, <<"GetObject">>, "", Response(500, "Error", << >>, 0))
       ELSE IF ~objExists
       THEN Finish(r, <<"GetObject">>, "",
                   Response(404, "does not exist, create it first", << >>, 0))
       ELSE \E k \in BodyCuts(objContent) :
                Continue(r, <<"GetObject">>, "aput",
                         [r EXCEPT !.existingContent =
                                       streamToString(BodyStream(objContent, k))])
    /\ UNCHANGED <<now, customVars, objExists, objContent, objLastModified, objLastWrite, seed,
                   removed, stageExists, ssmValue, reserved, acked>>

\* the upload that waits for the guard's verdict: the trip in the same step
AsyncPutObjectGuarded(r, outcome, skew) ==
    /\ r.pc = "aput"
    /\ IF outcome = "error"
       THEN /\ Finish(r, <<"PutObject">>, "", Response(500, "Error", << >>, 0))
            /\ UNCHANGED <<objExists, objContent, objLastModified, objLastWrite,
                           acked, stageExists>>
       ELSE /\ objExists' = TRUE
            /\ objContent' = UpdatedContent(r.existingContent, r.body)
            /\ objLastModified' = now
            /\ objLastWrite' = toISOString(now + skew)
            /\ acked' = Append(acked, [body |-> r.body, probed |-> objLastModified])
            /\ stageExists' = FALSE
            /\ Finish(r, <<"PutObject">>, "",
                      Response(200, "Text appended successfully", << >>, 0))
    /\ UNCHANGED <<now, customVars, seed, removed, ssmValue, reserved>>

\* App Lambda: upload with last-write = current timestamp; S3 then triggers
\* the Guard Lambda with the ObjectCreated event
AsyncPutObject(r, outcome, skew) ==
    /\ r.pc = "aput"
    /\ IF outcome = "error"
       THEN /\ Finish(r, <<"PutObject">>, "", Response(500, "Error", << >>, 0))
            /\ UNCHANGED <<objExists, objContent, objLastModified, objLastWrite, acked>>
       ELSE /\ objExists' = TRUE
            /\ objContent' = UpdatedContent(r.existingContent, r.body)
            /\ objLastModified' = now
            /\ objLastWrite' = toISOString(now + skew)
            /\ acked' = Append(acked, [body |-> r.body, probed |-> objLastModified])
            /\ inv' = (inv (-) One(r)) (+) One(GuardInvocation)
            /\ last' = Returned(r, TRUE, r.calls \o <<"PutObject">>, "",
                                Response(200, "Text appended successfully", << >>, 0))
    /\ UNCHANGED <<now, customVars, seed, removed, stageExists, ssmValue, reserved>>

\* Guard Lambda: HeadObject and the last-write metadata; what is thrown is
\* caught and the guard returns 500; without the metadata the record is
\* passed over
GuardHeadObject(g, outcome) ==
    /\ g.pc = "ghead"
    /\ IF outcome = "error" \/ ~objExists
       THEN GuardReturn(g, <<"HeadObject">>, 500, g.body)
       ELSE IF objLastWrite = NoLastWrite
       THEN GuardResume(g, <<"HeadObject">>)
       ELSE Continue(g, <<"HeadObject">>, "ggate",
                     [g EXCEPT !.lastModified = DateOf(objLastWrite)])
    /\ UNCHANGED <<now, customVars, objExists, objContent, objLastModified, objLastWrite, seed,
                   removed, stageExists, ssmValue, reserved, acked>>

\* Guard Lambda: diffMinutes < THRESHOLD_MINUTES
GuardGate(g, skew) ==
    /\ g.pc = "ggate"
    /\ LET currentTime == now + skew
       IN  IF ThresholdBreached(currentTime, g.lastModified,
                                GuardThresholdMinutes * Milli)
           THEN Continue(g, << >>, "gdelete", [g EXCEPT !.currentTime = currentTime])
           ELSE GuardResume(g, << >>)
    /\ UNCHANGED <<now, customVars, objExists, objContent, objLastModified, objLastWrite, seed,
                   removed, stageExists, ssmValue, reserved, acked>>

\* the DeleteStage call whose failure leaves the handler: no result
GuardDeleteStageThrows(g, outcome) ==
    /\ g.pc = "gdelete"
    /\ stageExists' = IF outcome = "ok" THEN FALSE ELSE stageExists
    /\ IF outcome = "ok"
       THEN GuardResume(g, <<"DeleteStage">>)
       ELSE /\ inv' = inv (-) One(g)
            /\ last' = Returned(g, TRUE, g.calls \o <<"DeleteStage">>, "Unhandled",
                                Nothing.resp)
    /\ UNCHANGED <<now, customVars, objExists, objContent, objLastModified, objLastWrite, seed,
                   removed, ssmValue, reserved, acked>>

\* Guard Lambda: DeleteStageCommand; its failure is caught by the catch of
\* the handler
GuardDeleteStage(g, outcome) ==
    /\ g.pc = "gdelete"
    /\ stageExists' = IF outcome = "ok" THEN FALSE ELSE stageExists
    /\ IF outcome = "ok"
       THEN GuardResume(g, <<"DeleteStage">>)
       ELSE GuardReturn(g, <<"DeleteStage">>, 500, g.body)
    /\ UNCHANGED <<now, customVars, objExists, objContent, objLastModified, objLastWrite, seed,
                   removed, ssmValue, reserved, acked>>

NextAsync ==
    \/ Tick
    \/ CreateObject(<< >>)
    \/ \E req \in AppendRequests : InvokeAsync(req)
    \/ \E req \in AppendRequests : Unrouted(req)
    \/ \E r \in BagToSet(inv), o \in Outcomes : AsyncGetObject(r, o)
    \/ \E r \in BagToSet(inv), o \in Outcomes, k \in ClockSkews : AsyncPutObject(r, o, k)
    \/ \E g \in BagToSet(inv), o \in Outcomes : GuardHeadObject(g, o)
    \/ \E g \in BagToSet(inv), k \in ClockSkews : GuardGate(g, k)
    \/ \E g \in BagToSet(inv), o \in Outcomes : GuardDeleteStage(g, o)

SpecAsync == Init /\ [][NextAsync]_vars

\* the Guard Lambda invoked with any event: some records, or none
RecordKinds == {Created, Other, BadKey}

GuardEvents ==
    {GuardEvent(FALSE, << >>)}
        \cup UNION {{GuardEvent(TRUE, rs) : rs \in [1 .. n -> RecordKinds]} :
                      n \in 0 .. MaxRecords}

\* event.Records of an event with no Records throws in the try; the loop
\* runs to the first await
InvokeGuard(e) ==
    /\ Running < MaxGuards
    /\ LET p == GuardLoop(e.body)
       IN  IF e.path = "undefined"
           THEN /\ last' = Returned(e, TRUE, << >>, "", GuardResult(500))
                /\ UNCHANGED inv
           ELSE IF p.status # 0
           THEN /\ last' = Returned([e EXCEPT !.body = p.body], TRUE, << >>, "",
                                    GuardResult(p.status))
                /\ UNCHANGED inv
           ELSE /\ inv' = inv (+) One(NewInvocation([e EXCEPT !.body = p.body], "ghead"))
                /\ UNCHANGED last
    /\ UNCHANGED <<now, customVars, objExists, objContent, objLastModified, objLastWrite, seed,
                   removed, stageExists, ssmValue, reserved, acked>>

\* the object as the guard finds it: created out of band, with no metadata,
\* or uploaded once by the App Lambda, with last-write
InitGuard ==
    /\ now = 0
    /\ NoCustomResource
    /\ objExists = TRUE
    /\ objLastModified = 0
    /\ \/ objContent = << >> /\ objLastWrite = NoLastWrite /\ acked = << >>
       \/ /\ objContent = <<NL>>
          /\ objLastWrite = toISOString(0)
          /\ acked = <<[body |-> << >>, probed |-> 0]>>
    /\ seed = << >>
    /\ removed = FALSE
    /\ stageExists = TRUE
    /\ ssmValue = <<"1">>
    /\ reserved = ReservedConcurrentExecutions
    /\ inv = EmptyBag
    /\ last = Nothing

\* the guard runs within seconds of its event: the clock stands
NextGuard ==
    \/ RemoveObject
    \/ \E e \in GuardEvents : InvokeGuard(e)
    \/ \E g \in BagToSet(inv), o \in Outcomes : GuardHeadObject(g, o)
    \/ \E g \in BagToSet(inv), k \in ClockSkews : GuardGate(g, k)
    \/ \E g \in BagToSet(inv), o \in Outcomes : GuardDeleteStage(g, o)

SpecGuard == InitGuard /\ [][NextGuard]_vars

\* the stack whose reservedConcurrentExecutions is commented out
InitUnreserved ==
    /\ now = 0
    /\ NoCustomResource
    /\ objExists = FALSE
    /\ objContent = << >>
    /\ objLastModified = 0
    /\ objLastWrite = NoLastWrite
    /\ seed = << >>
    /\ removed = FALSE
    /\ stageExists = TRUE
    /\ ssmValue = <<"1">>
    /\ reserved = 0
    /\ inv = EmptyBag
    /\ last = Nothing
    /\ acked = << >>

\* the operator only creates the object, empty; the requests run concurrently
\* and none is throttled
NextUnreserved ==
    \/ Tick
    \/ CreateObject(<< >>)
    \/ \E req \in Requests : Invoke(req)
    \/ \E req \in Requests : Unrouted(req)
    \/ Handler

SpecUnreserved == InitUnreserved /\ [][NextUnreserved]_vars

\* reads and appends of one payload, running concurrently
OverlapRequests ==
    {[method |-> "PUT", path |-> "/append", body |-> <<"a">>],
     [method |-> "GET", path |-> "/read", body |-> << >>]}

NextOverlap ==
    \/ Tick
    \/ \E c \in InitialContents : CreateObject(c)
    \/ \E req \in OverlapRequests : Invoke(req)
    \/ \E req \in OverlapRequests : Unrouted(req)
    \/ Handler

SpecOverlap == InitUnreserved /\ [][NextOverlap]_vars

\* the handler invoked with any method on any path
NextRouting ==
    \/ Tick
    \/ CreateObject(<< >>)
    \/ \E req \in AnyRequests : Invoke(req)
    \/ \E req \in AnyRequests : Unrouted(req)
    \/ Handler

SpecRouting == Init /\ [][NextRouting]_vars

\* the service with the parameter holding any value, valid or not
InitParameter ==
    /\ now = 0
    /\ NoCustomResource
    /\ objExists = FALSE
    /\ objContent = << >>
    /\ objLastModified = 0
    /\ objLastWrite = NoLastWrite
    /\ seed = << >>
    /\ removed = FALSE
    /\ stageExists = TRUE
    /\ ssmValue \in ParamValues \cup InvalidParamValues
    /\ reserved = ReservedConcurrentExecutions
    /\ inv = EmptyBag
    /\ last = Nothing
    /\ acked = << >>

NextParameter ==
    \/ Tick
    \/ CreateObject(<< >>)
    \/ Gateway
    \/ Handler

SpecParameter == InitParameter /\ [][NextParameter]_vars

----------------------------------------------------------------------------
(* The notification-config handler of the Security Stack's custom          *)
(* resource, one action per await.  CloudFormation sends one request at a  *)
(* time for the resource.                                                  *)

\* event.RequestType; "Replace" stands for a type the handler does not know
RequestTypes == {"Create", "Update", "Delete", "Replace"}

\* .filter(config => config.LambdaFunctionArn !== lambdaArn)
NotOurs(config) == config.LambdaFunctionArn # GuardArn

OtherLambdaConfigs(currentConfig) ==
    SelectSeq(currentConfig.LambdaFunctionConfigurations, NotOurs)

\* Id: `guard-lambda-notification-${Date.now()}`
newLambdaConfig(id) == LambdaConfig(id, GuardArn)

\* the NotificationConfiguration of the putCommand
PutInput(c) ==
    NotificationConfiguration(
        IF c.type = "Delete"
        THEN OtherLambdaConfigs(c.currentConfig)
        ELSE Append(OtherLambdaConfigs(c.currentConfig), newLambdaConfig(c.newId)),
        c.currentConfig.TopicConfigurations,
        c.currentConfig.QueueConfigurations)

\* handler(event, context), up to its first await; an unknown request type
\* throws into the catch
CustomRequest(type) ==
    /\ custom.pc = "idle"
    /\ Len(lifecycle) < MaxRequests
    /\ custom' = [Idle EXCEPT !.type = type,
                              !.pc = IF type \in {"Create", "Update", "Delete"}
                                     THEN "get"
                                     ELSE "failed",
                              !.before = notification]
    /\ UNCHANGED <<appVars, notification, lifecycle>>

\* await s3Client.send(getCommand): uncaught in Delete; in Create and Update
\* a failure leaves currentConfig = {}
GetBucketNotificationConfiguration(outcome) ==
    /\ custom.pc = "get"
    /\ custom' =
         IF outcome = "error" /\ custom.type = "Delete"
         THEN [custom EXCEPT !.got = outcome, !.pc = "failed"]
         ELSE [custom EXCEPT
                 !.got = outcome,
                 !.currentConfig = IF outcome = "ok" THEN notification
                                   ELSE NoConfiguration,
                 !.newId = IF custom.type = "Delete" THEN @
                           ELSE <<"guard-lambda-notification", now>>,
                 !.pc = "put"]
    /\ UNCHANGED <<appVars, notification, lifecycle>>

\* the put whose failure is logged and passed over: SUCCESS is sent anyway
PutBucketNotificationConfigurationUnchecked(outcome) ==
    /\ custom.pc = "put"
    /\ IF outcome = "error"
       THEN /\ custom' = [custom EXCEPT !.pc = "success"]
            /\ UNCHANGED notification
       ELSE /\ notification' = PutInput(custom)
            /\ custom' = [custom EXCEPT !.put = TRUE, !.pc = "success"]
    /\ UNCHANGED <<appVars, lifecycle>>

\* await s3Client.send(putCommand)
PutBucketNotificationConfiguration(outcome) ==
    /\ custom.pc = "put"
    /\ IF outcome = "error"
       THEN /\ custom' = [custom EXCEPT !.pc = "failed"]
            /\ UNCHANGED notification
       ELSE /\ notification' = PutInput(custom)
            /\ custom' = [custom EXCEPT !.put = TRUE, !.pc = "success"]
    /\ UNCHANGED <<appVars, lifecycle>>

\* what the handler leaves behind when it ends; threw: it ended by an
\* exception
Ended(c, sent, threw) ==
    [type |-> c.type, before |-> c.before, after |-> notification,
     got |-> c.got, put |-> c.put, sent |-> sent, threw |-> threw]

\* await sendResponse(event, context, status, data): the fetch of the
\* ResponseURL; when it throws, sendResponse throws: after SUCCESS into the
\* handler's catch, which sends FAILED, after FAILED out of the handler
sendResponse(outcome) ==
    /\ custom.pc \in {"success", "failed"}
    /\ LET sent == Append(custom.sent,
                          [Status |-> IF custom.pc = "success"
                                      THEN "SUCCESS"
                                      ELSE "FAILED",
                           NotificationId |-> IF custom.pc = "success"
                                              THEN custom.newId
                                              ELSE Idle.newId,
                           delivered |-> outcome = "ok"])
       IN  IF outcome = "error" /\ custom.pc = "success"
           THEN /\ custom' = [custom EXCEPT !.sent = sent, !.pc = "failed"]
                /\ UNCHANGED lifecycle
           ELSE /\ custom' = Idle
                /\ lifecycle' = Append(lifecycle,
                                       Ended(custom, sent, outcome = "error"))
    /\ UNCHANGED <<appVars, notification>>

\* the entries other stacks have put on the bucket
OtherLambda == LambdaConfig(<<"other-notification", 0>>, OtherArn)
InitialNotifications ==
    {NotificationConfiguration(l, t, q) :
        l \in {<< >>, <<OtherLambda>>},
        t \in {<< >>, <<"topic">>},
        q \in {<< >>, <<"queue">>}}

InitNotification ==
    /\ now = 0
    /\ objExists = FALSE
    /\ objContent = << >>
    /\ objLastModified = 0
    /\ objLastWrite = NoLastWrite
    /\ seed = << >>
    /\ removed = FALSE
    /\ stageExists = TRUE
    /\ ssmValue = <<"1">>
    /\ reserved = ReservedConcurrentExecutions
    /\ inv = EmptyBag
    /\ last = Nothing
    /\ acked = << >>
    /\ notification \in InitialNotifications
    /\ custom = Idle
    /\ lifecycle = << >>

NextNotification ==
    \/ Tick
    \/ \E type \in RequestTypes : CustomRequest(type)
    \/ \E o \in Outcomes : GetBucketNotificationConfiguration(o)
    \/ \E o \in Outcomes : PutBucketNotificationConfiguration(o)
    \/ \E o \in Outcomes : sendResponse(o)

SpecNotification == InitNotification /\ [][NextNotification]_vars

----------------------------------------------------------------------------
(* Vocabulary of the properties *)

InFlight == BagToSet(inv)

IsAppend(x) == x.method = "PUT" /\ x.path = "/append"
IsRead(x) == x.method = "GET" /\ x.path = "/read"

\* a threshold (thousandths of a minute) in ms
ThresholdMs(t) == (t * MsPerMinute) \div Milli

ElapsedMs(r) == r.currentTime - r.lastModified

\* the step is the PutObject of r that succeeds
Commits(r) ==
    /\ r.pc = "put"
    /\ inv = inv' (+) One(r)
    /\ Len(acked') = Len(acked) + 1

\* the text the acknowledged appends add, in commit order
RECURSIVE AckedText(_)
AckedText(a) ==
    IF a = << >>
    THEN << >>
    ELSE AckedText(SubSeq(a, 1, Len(a) - 1)) \o a[Len(a)].body \o <<NL>>

\* the step takes the invocation with locals r on; it returns
Moves(r) == r \in InFlight /\ CopiesIn(r, inv') < CopiesIn(r, inv)
Ends(r) == Moves(r) /\ inv' = inv (-) One(r)

Range(f) == {f[k] : k \in DOMAIN f}

OneMinute == DefaultThresholdMinutes * Milli

TripCalls == <<"GetParameter", "HeadObject", "DeleteStage">>
ProbeCalls == <<"GetParameter", "HeadObject">>
CommitCalls == <<"GetParameter", "HeadObject", "GetObject", "PutObject">>

----------------------------------------------------------------------------
(* C1: an append that reaches the gate with probed timestamp L, clock      *)
(* reading now and threshold T trips (DeleteStage, 503, no read, no write) *)
(* iff now - L < T and goes on to read and write iff now - L >= T; a tie   *)
(* is allowed and a negative elapsed time trips.                           *)
C1_GateDecision ==
    /\ \A r \in InFlight :
         /\ r.pc = "delete" => ElapsedMs(r) < ThresholdMs(r.threshold)
         /\ r.pc \in {"get", "put"} => ElapsedMs(r) >= ThresholdMs(r.threshold)
    /\ last.resp.status = 503 => last.calls = TripCalls
    /\ IsAppend(last) /\ last.resp.status = 200 => last.calls = CommitCalls

\* the tie: an append about to write whose elapsed time equals the threshold
C1_TieAllowed ==
    \E r \in InFlight : r.pc = "put" /\ ElapsedMs(r) = ThresholdMs(r.threshold)

\* an append tripping on a clock reading that is before the probed timestamp
C1_NegativeElapsedTrips ==
    \E r \in InFlight : r.pc = "delete" /\ r.currentTime < r.lastModified

C3_NoLostUpdate ==
    /\ objExists => objContent = seed \o AckedText(acked)
    /\ \A i, j \in DOMAIN acked : i # j => acked[i].probed # acked[j].probed

\* two appends were answered 200 and the object holds both payloads
C3_TwoCommits ==
    /\ Len(acked) = 2
    /\ objExists
    /\ Len(objContent) = Len(seed) + Len(acked[1].body) + Len(acked[2].body) + 2

(* C4: without the reserved concurrency, an append that commits content it *)
(* read before another append's commit drops that append's text: after    *)
(* its 200 the object is shorter than the text acknowledged, so the lost   *)
(* update of two appends that passed the gate on one timestamp is          *)
(* reachable.                                                              *)
C4_StaleCommitLosesUpdate ==
    [][\A r \in InFlight :
          Commits(r) /\ objExists /\ r.existingContent # objContent
              => Len(objContent') < Len(seed) + Len(AckedText(acked'))]_vars

\* two appends probed the same timestamp, both were answered 200, and the
\* object holds the payload of the second alone
C4_LostUpdate ==
    /\ Len(acked) = 2
    /\ acked[1].probed = acked[2].probed
    /\ acked[1].body # acked[2].body
    /\ last.resp.status = 200 /\ IsAppend(last)
    /\ objContent = seed \o acked[2].body \o <<NL>>

(* C5: the step of a tripped append answers 503 and ends the request with  *)
(* the object as it was; no step of an append before its full read changes *)
(* the object; the calls of a 503 are GetParameter, HeadObject and         *)
(* DeleteStage, with no GetObject and no PutObject.                        *)
C5_TripWritesNothing ==
    [][/\ \A r \in InFlight :
            /\ Moves(r) /\ r.pc \in {"ssm", "head", "gate", "delete"}
                 => UNCHANGED <<objExists, objContent, objLastModified, acked>>
            /\ Moves(r) /\ r.pc = "delete"
                 => Ends(r) /\ last'.resp.status = 503
       /\ last'.resp.status = 503
            => /\ "GetObject" \notin Range(last'.calls)
               /\ "PutObject" \notin Range(last'.calls)]_vars

\* an append was answered 503 while the object holds an acknowledged write
C5_Tripped ==
    /\ last.resp.status = 503
    /\ objExists /\ Len(acked) >= 1
    /\ objContent = seed \o AckedText(acked)

(* C6: the response of an append that called DeleteStage is the 503 of the *)
(* trip, whether the call succeeded or failed: never 500, never a write.   *)
C6_DisableFailureSwallowed ==
    "DeleteStage" \in Range(last.calls)
        => /\ last.resp.status = 503
           /\ last.resp.msg = "Circuit breaker activated"
           /\ last.calls = TripCalls
           /\ last.log \in {"Successfully deleted stage", "Error deleting API stage"}

\* a 503 whose DeleteStage call failed: the stage is still there
C6_DisableFailed ==
    /\ last.resp.status = 503
    /\ last.log = "Error deleting API stage"
    /\ stageExists

C8_NoAdmissionWhileDisabled ==
    [][~stageExists =>
          /\ inv = EmptyBag /\ inv' = EmptyBag
          /\ last' # last => ~last'.admitted
          /\ acked' = acked
          /\ objExists /\ objExists' => UNCHANGED <<objContent, objLastModified>>]_vars

\* a request that came while the stage was deleted was turned away
C8_TurnedAway ==
    /\ ~stageExists
    /\ ~last.admitted /\ last.resp.msg = "no stage"
    /\ Len(acked) >= 1

(* C9: the stage is deleted only by the DeleteStage step of a tripped      *)
(* append, and it comes back only by a step that is none of the handler's: *)
(* one that moves no invocation and returns no response.                   *)
C9_OnlyTripDisables ==
    [][/\ stageExists /\ ~stageExists'
            => \E r \in InFlight : r.pc = "delete" /\ Ends(r) /\ last'.resp.status = 503
       /\ ~stageExists /\ stageExists'
            => UNCHANGED <<inv, last, acked, objExists, objContent, objLastModified>>]_vars

\* the operator has recreated the stage after a trip deleted it
C9_Recovered ==
    /\ stageExists
    /\ last.resp.status = 503 /\ last.log = "Successfully deleted stage"

(* C10: an append whose probe finds no object is answered 404 after        *)
(* GetParameter and HeadObject alone: no DeleteStage, no write, the object *)
(* still absent; a read that finds no object is answered 404 too.          *)
C10_AbsentIsNotFound ==
    [][\A r \in InFlight :
          /\ Moves(r) /\ r.pc = "head" /\ ~objExists
               => /\ Ends(r)
                  /\ last'.resp.status \in {404, 500}
                  /\ last'.calls = ProbeCalls
                  /\ ~objExists'
                  /\ UNCHANGED <<objContent, objLastModified, stageExists, acked>>
          /\ Ends(r) /\ r.pc = "head" /\ last'.resp.status = 404 => ~objExists
          /\ Moves(r) /\ r.pc = "read" /\ ~objExists
               => /\ Ends(r)
                  /\ last'.resp.status \in {404, 500}
                  /\ last'.resp.text = << >>
                  /\ ~objExists']_vars

\* an append was answered 404 by the probe and the object is absent
C10_AppendNotFound ==
    /\ IsAppend(last) /\ last.resp.status = 404
    /\ last.calls = ProbeCalls
    /\ ~objExists /\ stageExists

(* C11: the threshold of every gate decision is positive; when the value   *)
(* of the parameter is not a number, empty, zero or negative, or the fetch *)
(* fails, the append goes on to the probe with the threshold of 1 minute:  *)
(* the fetch ends no request, and the gate trips below 1 minute and passes *)
(* from 1 minute on.                                                       *)
C11_ThresholdFallback ==
    [][\A r \in InFlight :
          /\ r.pc \notin {"ssm", "read"} =>
                /\ r.threshold > 0
                /\ ssmValue \in InvalidParamValues => r.threshold = OneMinute
                /\ r.threshold # OneMinute => ssmValue \in ParamValues
          /\ r.pc = "delete" /\ ssmValue \in InvalidParamValues
                => ElapsedMs(r) < MsPerMinute
          /\ r.pc \in {"get", "put"} /\ ssmValue \in InvalidParamValues
                => ElapsedMs(r) >= MsPerMinute
          /\ Moves(r) /\ r.pc = "ssm"
                => /\ ~Ends(r)
                   /\ \E q \in BagToSet(inv') : q.pc = "head" /\ q.threshold > 0
                   /\ UNCHANGED last]_vars

\* an append tripped against the fallback while the parameter holds zero
C11_FallbackTripped ==
    /\ ssmValue = <<"0">>
    /\ IsAppend(last) /\ last.resp.status = 503
    /\ last.resp.minutes = OneMinute

(* C12: a read makes one call, GetObject, and nothing else: an invocation  *)
(* of GET /read has made no call before its only step, and that step ends  *)
(* the request and leaves the object's existence, content and              *)
(* LastModified, the stage, the parameter and the acknowledged history as  *)
(* they were, however recent the last write.                               *)
C12_ReadBypassesGate ==
    [][\A r \in InFlight :
          /\ IsRead(r) => r.pc = "read" /\ r.calls = << >>
          /\ r.pc = "read" => IsRead(r)
          /\ Moves(r) /\ r.pc = "read"
               => /\ Ends(r)
                  /\ IsRead(last')
                  /\ last'.calls = <<"GetObject">>
                  /\ last'.resp.status \in {200, 404, 500}
                  /\ UNCHANGED <<objExists, objContent, objLastModified,
                                 stageExists, ssmValue, acked>>]_vars

\* a read answered 200 at the very time of a committed write, the stage in place
C12_ReadAfterRecentWrite ==
    /\ IsRead(last) /\ last.resp.status = 200
    /\ Len(acked) >= 1
    /\ objExists /\ objLastModified = now
    /\ stageExists

(* C13: a read of the object that exists, when its GetObject succeeds, is  *)
(* answered 200 with the object's current content as its body, character   *)
(* for character, however the bytes came in chunks; the read of an         *)
(* existing object is never answered 404.                                  *)
C13_ReadReturnsContent ==
    [][\A r \in InFlight :
          Moves(r) /\ r.pc = "read" /\ objExists
              => /\ last'.resp.status \in {200, 500}
                 /\ last'.resp.status = 200 => last'.resp.text = objContent]_vars

\* a read returned content that holds a character of two bytes
C13_ReadTwoByteCharacter ==
    /\ IsRead(last) /\ last.resp.status = 200
    /\ objExists /\ last.resp.text = objContent
    /\ \E k \in DOMAIN objContent : objContent[k] = "é"

(* C14: the commit of an append of payload p that read content c leaves    *)
(* c, p and one newline as the object's content, and a read that is the    *)
(* next request answered after that append's 200 returns exactly that,     *)
(* also for the empty payload.                                             *)
C14_RoundTrip ==
    [][\A r \in InFlight :
          /\ Commits(r)
               => /\ objContent' = r.existingContent \o r.body \o <<NL>>
                  /\ objExists => r.existingContent = objContent
          /\ Moves(r) /\ r.pc = "read"
                /\ IsAppend(last) /\ last.resp.status = 200
                /\ last'.resp.status = 200
               => /\ acked # << >>
                  /\ last'.resp.text =
                        seed \o AckedText(SubSeq(acked, 1, Len(acked) - 1))
                             \o last.body \o <<NL>>]_vars

\* the append of the empty payload to content of initial text was read back
C14_EmptyPayloadReadBack ==
    /\ IsRead(last) /\ last.resp.status = 200
    /\ seed # << >> /\ Len(acked) = 1 /\ acked[1].body = << >>
    /\ last.resp.text = seed \o <<NL>>

StoreCalls == {"HeadObject", "GetObject", "PutObject"}

(* C15: a store call either delivers what the store holds or ends the      *)
(* request: an append goes past its probe only with the object's           *)
(* LastModified and past its read only with the object's content, and a    *)
(* write that is not acknowledged changes nothing.  A 500 is the answer to *)
(* a store call that failed: the failed call is the last call of the       *)
(* request, no DeleteStage was called, the step ends the request and       *)
(* leaves the object, the stage and the acknowledged history as they were. *)
C15_StoreFailureIsFatal ==
    [][/\ \A r \in InFlight :
            /\ Moves(r) /\ r.pc = "head" /\ ~Ends(r)
                 => /\ objExists
                    /\ \E q \in BagToSet(inv') :
                          q.pc = "gate" /\ q.lastModified = objLastModified
            /\ Moves(r) /\ r.pc = "get" /\ ~Ends(r)
                 => /\ objExists
                    /\ \E q \in BagToSet(inv') :
                          q.pc = "put" /\ q.existingContent = objContent
            /\ Moves(r) /\ r.pc = "put"
                 => /\ Ends(r)
                    /\ last'.resp.status \in {200, 500}
                    /\ last'.resp.status = 500
                          => UNCHANGED <<objExists, objContent, objLastModified>>
       /\ \A r \in InFlight :
            Moves(r) /\ last'.resp.status = 500 /\ last' # last
                => /\ Ends(r)
                   /\ r.pc \in {"head", "get", "put", "read"}
                   /\ Len(last'.calls) = Len(r.calls) + 1
                   /\ last'.calls[Len(last'.calls)] \in StoreCalls
                   /\ UNCHANGED <<objExists, objContent, objLastModified,
                                  stageExists, acked>>
       /\ last'.resp.status = 500
            => /\ last'.admitted
               /\ "DeleteStage" \notin Range(last'.calls)
               /\ last'.calls # << >>
               /\ last'.calls[Len(last'.calls)] \in StoreCalls]_vars

\* the write of an append failed after its read: 500, the content as it was
C15_WriteFailed ==
    /\ IsAppend(last) /\ last.resp.status = 500
    /\ last.calls = CommitCalls
    /\ objExists /\ objContent = seed \o AckedText(acked)
    /\ Len(acked) >= 1
    /\ stageExists

(* C18: the object's LastModified changes, while the object exists, only   *)
(* by the commit of an append, which makes it greater and sets it to the   *)
(* store's clock, not to a value of the handler; every other step of an    *)
(* invocation leaves it as it was.                                         *)
C18_LastModifiedIncreases ==
    [][/\ objExists /\ objExists' /\ objLastModified' # objLastModified
            => \E r \in InFlight : Commits(r)
       /\ \A r \in InFlight :
            /\ Commits(r) => objLastModified' = now
            /\ Commits(r) /\ objExists => objLastModified' > objLastModified
            /\ Moves(r) /\ ~Commits(r) => UNCHANGED objLastModified]_vars

\* two commits, each leaving a later timestamp than the one it probed
C18_TwoStamps ==
    /\ Len(acked) = 2 /\ objExists
    /\ acked[1].probed < acked[2].probed
    /\ acked[2].probed < objLastModified

(* C16: a request that is neither PUT /append nor GET /read is answered    *)
(* 404 by the handler at once: no invocation of it is ever in flight, it   *)
(* has made no call, and its step leaves the object, the stage, the        *)
(* parameter, the acknowledged history and the invocations in flight as    *)
(* they were.                                                              *)
C16_OtherRouteNotFound ==
    [][/\ \A r \in InFlight : IsAppend(r) \/ IsRead(r)
       /\ last' # last /\ last'.admitted /\ ~IsAppend(last') /\ ~IsRead(last')
            => /\ last'.resp = Response(404, "Not Found", << >>, 0)
               /\ last'.calls = << >>
               /\ UNCHANGED <<objExists, objContent, objLastModified,
                              stageExists, ssmValue, acked, inv>>]_vars

\* PUT /read, with the object in place, was answered 404 by the handler
C16_PutReadNotFound ==
    /\ last.method = "PUT" /\ last.path = "/read"
    /\ last.admitted /\ last.resp.status = 404
    /\ objExists /\ stageExists

C19_HungCallEndsAsFailure ==
    [][\A r \in InFlight :
          Moves(r) /\ r.pc = "hung"
              => LET call == r.calls[Len(r.calls)]
                 IN  /\ call \in StoreCalls
                          => Ends(r) /\ last'.resp = Response(500, "Error", << >>, 0)
                     /\ call = "GetParameter"
                          => \E q \in BagToSet(inv') :
                                q.pc = "head" /\ q.threshold = OneMinute
                     /\ call = "DeleteStage"
                          => /\ Ends(r)
                             /\ last'.resp = Response(503, "Circuit breaker activated",
                                                      << >>, r.threshold)]_vars

GuardThresholdMs == GuardThresholdMinutes * MsPerMinute

\* the step is the upload of r that succeeds, in the two-stack architecture
CommitsAsync(r) ==
    /\ r.pc = "aput"
    /\ Len(acked') = Len(acked) + 1

(* C20: in the two-stack architecture the upload of an append is held back *)
(* by nothing but the stage: its step leaves the stage as it is and hands  *)
(* the check to a guard invocation that runs afterwards, and the stage is  *)
(* deleted only by the DeleteStage step of a guard, after the commit it    *)
(* judges.  So the state in which a second append has committed within the *)
(* guard's threshold of the first, with the stage still in place, is       *)
(* reachable.                                                              *)
C20_GuardRunsAfterCommit ==
    [][/\ \A r \in InFlight :
            CommitsAsync(r)
                => /\ stageExists' = stageExists
                   /\ \E g \in BagToSet(inv') :
                         IsGuard(g) /\ g.pc = "ghead"
                                    /\ CopiesIn(g, inv') = CopiesIn(g, inv) + 1
       /\ stageExists /\ ~stageExists'
            => /\ acked # << >>
               /\ acked' = acked
               /\ \E g \in InFlight : IsGuard(g) /\ g.pc = "gdelete" /\ Moves(g)]_vars

\* two appends committed less than the guard's threshold apart while the
\* stage is in place and neither guard invocation has got to its DeleteStage
C20_SecondCommitBeforeGuard ==
    /\ Len(acked) = 2
    /\ objLastModified - acked[2].probed < GuardThresholdMs
    /\ stageExists
    /\ last.resp.status = 200
    /\ \A g \in InFlight : IsGuard(g) /\ g.pc # "gdelete"
    /\ Running = 2

\* the guard invocation g is at its comparison and the step takes it on to
\* its DeleteStage
GuardTrips(g) ==
    /\ IsGuard(g) /\ g.pc = "ggate" /\ Moves(g)
    /\ \E q \in BagToSet(inv') : IsGuard(q) /\ q.pc = "gdelete"
                                   /\ CopiesIn(q, inv') = CopiesIn(q, inv) + 1

\* two appends have committed, the last less than the guard's threshold
\* after the one before it
TwoWritesWithinGuardThreshold ==
    /\ Len(acked) >= 2
    /\ objLastModified - acked[Len(acked)].probed < GuardThresholdMs

(* C21: in the two-stack architecture the guard goes on to delete the      *)
(* stage if and only if two writes occurred within 30 minutes of each      *)
(* other: the guard of a write with no other write in the 30 minutes       *)
(* before it does not trip.                                                *)
C21_GuardTripsOnSecondWrite ==
    [][\A g \in InFlight :
          IsGuard(g) /\ g.pc = "ggate" /\ Moves(g)
              => (GuardTrips(g) <=> TwoWritesWithinGuardThreshold)]_vars

(* C22: an append probes, then decides: its GetParameter call is made only *)
(* after its HeadObject call has returned, and the append whose probe      *)
(* finds no object is answered 404 with no GetParameter call made and no   *)
(* comparison.                                                             *)
C22_ProbeThenDecide ==
    [][/\ \A r \in InFlight :
            Moves(r) /\ r.pc = "ssm" => "HeadObject" \in Range(r.calls)
       /\ IsAppend(last') /\ last'.admitted /\ last'.resp.status = 404
            => /\ "GetParameter" \notin Range(last'.calls)
               /\ "DeleteStage" \notin Range(last'.calls)]_vars

HalfMinute == Milli \div 2

(* C23: every append fetches its threshold itself: an invocation carries   *)
(* no threshold before its GetParameter step, and that step gives it what  *)
(* getThresholdMinutes makes of the value Parameter Store holds at that    *)
(* time (or the default, when the call fails), whatever the value was for  *)
(* the appends before; the gate of the request decides with that value.    *)
C23_ThresholdReadFresh ==
    [][\A r \in InFlight :
          /\ r.pc = "ssm" => r.threshold = 0 /\ r.calls = << >>
          /\ Moves(r) /\ r.pc = "ssm"
               => \E q \in BagToSet(inv') :
                     /\ q.pc = "head"
                     /\ q.calls = <<"GetParameter">>
                     /\ q.threshold \in {getThresholdMinutes("ok", ssmValue),
                                         getThresholdMinutes("error", ssmValue)}
          /\ Moves(r) /\ r.pc \in {"head", "gate"}
               => \A q \in BagToSet(inv') : q.threshold \in {0, r.threshold}
          /\ Moves(r) /\ r.pc = "delete" => last'.resp.minutes = r.threshold]_vars

\* the first append passed the gate half a minute after the object was
\* created, which takes the threshold of 0.5; the parameter was changed and
\* the next append, half a minute later, tripped against 1 minute
C23_RetunedBetweenAppends ==
    /\ Len(acked) = 1
    /\ objLastModified - acked[1].probed = ThresholdMs(HalfMinute)
    /\ IsAppend(last) /\ last.resp.status = 503
    /\ last.resp.minutes = OneMinute
    /\ now - objLastModified = ThresholdMs(HalfMinute)
    /\ ssmValue = <<"1">>

(* C24: a 503 is the answer of the DeleteStage step of an append, and its  *)
(* body names the threshold of that request: the value its GetParameter    *)
(* step gave it, against which its gate found the elapsed time too short.  *)
(* That value is 1 minute when the parameter holds no valid number.        *)
C24_RejectionNamesThreshold ==
    [][/\ \A r \in InFlight :
            Moves(r) /\ r.pc = "delete"
                => /\ Ends(r)
                   /\ last'.resp.status = 503
                   /\ last'.resp.msg = "Circuit breaker activated"
                   /\ last'.resp.minutes = r.threshold
                   /\ ElapsedMs(r) < ThresholdMs(last'.resp.minutes)
                   /\ r.threshold \in {getThresholdMinutes("ok", ssmValue), OneMinute}
                   /\ ssmValue \in InvalidParamValues
                        => last'.resp.minutes = OneMinute
       /\ last'.resp.status = 503 /\ last' # last
            => \E r \in InFlight : r.pc = "delete" /\ Ends(r)]_vars

\* an append was rejected half a minute after the object's last write with
\* 1 minute in the message, the parameter holding a negative number
C24_FallbackNamed ==
    /\ ssmValue = <<"-", "1">>
    /\ IsAppend(last) /\ last.resp.status = 503
    /\ last.resp.minutes = OneMinute
    /\ objExists /\ now - objLastModified = ThresholdMs(HalfMinute)

\* no call occurs twice in the sequence of calls
NoRepeat(calls) ==
    \A i, j \in DOMAIN calls : i # j => calls[i] # calls[j]

ReadCalls == <<"GetObject">>

\* s is the beginning of t
IsPrefix(s, t) == Len(s) <= Len(t) /\ s = SubSeq(t, 1, Len(s))

C26_ReadsNotBounded ==
    [][/\ BagCardinality([r \in {q \in InFlight : IsAppend(q)} |-> CopiesIn(r, inv)])
            <= ReservedConcurrentExecutions
       /\ IsRead(last') /\ last' # last /\ stageExists
            => last'.admitted]_vars

(* C27: the content of the object changes, while it exists, only by the    *)
(* commit of an append, which replaces it as a whole by the content that   *)
(* append read, its payload and a newline; a read answered 200 returns the *)
(* content the object has at its GetObject, so a read in flight during a   *)
(* commit returns the content before it or the content after it and never  *)
(* a part of either.                                                       *)
C27_ReadSeesWholeContent ==
    [][/\ objExists /\ objExists' /\ objContent' # objContent
            => \E r \in InFlight :
                  /\ Commits(r)
                  /\ objContent' = r.existingContent \o r.body \o <<NL>>
       /\ \A r \in InFlight :
            /\ Commits(r) /\ (\E q \in InFlight : q.pc = "read")
                 => \E q \in BagToSet(inv') : q.pc = "read"
            /\ Moves(r) /\ r.pc = "read" /\ last'.resp.status = 200
                 => /\ last'.resp.text = objContent
                    /\ UNCHANGED objContent
                    /\ \/ last'.resp.text = seed
                       \/ \E b \in Payloads, n \in 0 .. Len(objContent) :
                             last'.resp.text = SubSeq(objContent, 1, n) \o b \o <<NL>>]_vars

\* a read was answered with the content that an append in flight has read
\* and is about to replace: the content before that append, whole
C27_ReadRacedCommit ==
    /\ IsRead(last) /\ last.resp.status = 200
    /\ \E r \in InFlight :
          r.pc = "put" /\ r.body = <<"a">> /\ r.existingContent = last.resp.text
    /\ objExists /\ objContent = last.resp.text

(* C28: the gate compares the elapsed milliseconds with the threshold in   *)
(* minutes, nothing cut or rounded: an append that has passed its gate     *)
(* goes to DeleteStage iff elapsed_ms < threshold_minutes * 60000.  Against *)
(* 1 minute 59999 ms trip and 60000 ms do not; against 0.5 minutes 29999   *)
(* ms trip and 30000 ms do not.                                            *)
C28_NoTruncation ==
    \A r \in InFlight :
        r.pc \in {"delete", "get", "put"}
            => /\ r.pc = "delete"
                    <=> ElapsedMs(r) * Milli < r.threshold * MsPerMinute
               /\ r.threshold = OneMinute
                    => (r.pc = "delete" <=> ElapsedMs(r) <= 59999)
               /\ r.threshold = HalfMinute
                    => (r.pc = "delete" <=> ElapsedMs(r) <= 29999)

\* the first append passed against 0.5 minutes after 30000 ms and the next
\* one trips against 0.5 minutes after 29999 ms
C28_HalfMinuteHonoured ==
    /\ Len(acked) = 1
    /\ objLastModified - acked[1].probed = 30000
    /\ \E r \in InFlight :
          r.pc = "delete" /\ r.threshold = HalfMinute /\ ElapsedMs(r) = 29999

\* what the step of an invocation comes to: it returns resp after call, or
\* goes on with the locals loc; put: the object is written; del: the stage
\* is deleted
Returns(call, log, resp) ==
    [ends |-> TRUE, loc |-> << >>, call |-> call, log |-> log, resp |-> resp,
     put |-> FALSE, del |-> FALSE]
GoesOn(call, loc) ==
    [ends |-> FALSE, loc |-> [loc EXCEPT !.calls = @ \o call], call |-> call,
     log |-> "", resp |-> Nothing.resp, put |-> FALSE, del |-> FALSE]

Failed == Response(500, "Error", << >>, 0)

\* the step of the invocation with locals r as a function of r, the store,
\* Parameter Store and the clock, and of what the collaborators do: the
\* outcome o of the call, the lag k of the clock, the cut c of the body
StepOf(r, o, k, c) ==
    CASE r.pc = "ssm" ->
           GoesOn(<<"GetParameter">>,
                  [r EXCEPT !.pc = "head",
                            !.threshold = getThresholdMinutes(o, ssmValue)])
      [] r.pc = "head" ->
           IF o = "error" THEN Returns(<<"HeadObject">>, "", Failed)
           ELSE IF ~objExists
           THEN Returns(<<"HeadObject">>, "",
                        Response(404, "does not exist, create it first", << >>, 0))
           ELSE GoesOn(<<"HeadObject">>,
                       [r EXCEPT !.pc = "gate", !.lastModified = objLastModified])
      [] r.pc = "gate" ->
           GoesOn(<< >>,
                  [r EXCEPT !.currentTime = now + k,
                            !.pc = IF ThresholdBreached(now + k, r.lastModified,
                                                        r.threshold)
                                   THEN "delete"
                                   ELSE "get"])
      [] r.pc = "delete" ->
           [Returns(<<"DeleteStage">>,
                    IF o = "ok" THEN "Successfully deleted stage"
                                ELSE "Error deleting API stage",
                    Response(503, "Circuit breaker activated", << >>, r.threshold))
               EXCEPT !.del = (o = "ok")]
      [] r.pc = "get" ->
           IF o = "error" THEN Returns(<<"GetObject">>, "", Failed)
           ELSE IF ~objExists
           THEN Returns(<<"GetObject">>, "",
                        Response(404, "does not exist, create it first", << >>, 0))
           ELSE GoesOn(<<"GetObject">>,
                       [r EXCEPT !.pc = "put",
                                 !.existingContent =
                                     streamToString(BodyStream(objContent, c))])
      [] r.pc = "put" ->
           IF o = "error" THEN Returns(<<"PutObject">>, "", Failed)
           ELSE [Returns(<<"PutObject">>, "",
                         Response(200, "Text appended successfully", << >>, 0))
                    EXCEPT !.put = TRUE]
      [] r.pc = "read" ->
           IF o = "error" THEN Returns(<<"GetObject">>, "", Failed)
           ELSE IF ~objExists
           THEN Returns(<<"GetObject">>, "", Response(404, "does not exist", << >>, 0))
           ELSE Returns(<<"GetObject">>, "",
                        Response(200, "content",
                                 streamToString(BodyStream(objContent, c)), 0))

\* the step from the present state to the next is the step s of r
IsStep(r, s) ==
    /\ IF s.ends
       THEN /\ inv' = inv (-) One(r)
            /\ last' = Returned(r, TRUE, r.calls \o s.call, s.log, s.resp)
       ELSE /\ inv' = (inv (-) One(r)) (+) One(s.loc)
            /\ last' = last
    /\ IF s.put
       THEN /\ objExists'
            /\ objContent' = r.existingContent \o r.body \o <<NL>>
            /\ objLastModified' = now
       ELSE UNCHANGED <<objExists, objContent, objLastModified>>
    /\ stageExists' = (stageExists /\ ~s.del)
    /\ UNCHANGED <<ssmValue, now>>

(* C29: the handler keeps nothing between requests.  An invocation starts  *)
(* with locals made of its request alone, and every step of it, with its   *)
(* response and its effects on the object and the stage, is the step that  *)
(* its request and locals, the object's existence, content and             *)
(* LastModified, the parameter's value, the clock and the outcome of the   *)
(* call determine: the requests handled before, their responses and the    *)
(* history of the object have no part in it.                               *)
C29_StatelessBetweenRequests ==
    [][\A r \in InFlight :
          /\ r.pc \in {"ssm", "read"} => r = NewInvocation(r, Route(r))
          /\ Moves(r)
               => \E o \in Outcomes, k \in ClockSkews, c \in BodyCuts(objContent) :
                     IsStep(r, StepOf(r, o, k, c))]_vars

\* an append was answered 404 for the object that is gone, as by a handler
\* that had handled nothing, after appends that were acknowledged
C29_NotFoundAfterCommits ==
    /\ IsAppend(last) /\ last.resp.status = 404
    /\ ~objExists /\ removed
    /\ Len(acked) >= 1

(* C30: the guard handler always returns a result.  Every step of a guard  *)
(* invocation either takes it on to its next call or ends it with          *)
(* statusCode 200 or 500, also when HeadObject or DeleteStage fails; an    *)
(* event that reaches no call is answered 200 or 500 at once; 200 is       *)
(* returned only with no record left.                                      *)
C30_GuardAlwaysReturns ==
    [][/\ \A g \in InFlight :
            IsGuard(g) /\ Moves(g)
                => \/ /\ Ends(g)
                      /\ last'.method = "S3"
                      /\ last'.calls # << >>
                      /\ last'.resp.status \in {200, 500}
                   \/ /\ last' = last
                      /\ \E q \in BagToSet(inv') :
                            /\ IsGuard(q) /\ q.pc \in {"ghead", "ggate", "gdelete"}
                            /\ inv' = (inv (-) One(g)) (+) One(q)
       /\ last'.method = "S3"
            => /\ last'.resp.status \in {200, 500}
               /\ last'.log # "Unhandled"
               /\ last'.resp.status = 200 => last'.body = << >>]_vars

\* the guard returned 500 for a DeleteStage call that failed: the stage is
\* in place
C30_DeleteFailureReturned ==
    /\ last.method = "S3" /\ last.resp.status = 500
    /\ last.calls # << >> /\ last.calls[Len(last.calls)] = "DeleteStage"
    /\ stageExists

(* C33: with the reserved concurrency of one, whatever appends, trips,     *)
(* recoveries and changes of the threshold came before, an append that     *)
(* commits after another has probed the store timestamp of that commit and *)
(* decided at least its own threshold after it: two consecutive commits    *)
(* are a threshold apart.                                                  *)
C33_ConsecutiveCommitsApart ==
    [][\A r \in InFlight :
          Commits(r) /\ acked # << >>
              => /\ objExists => r.lastModified = objLastModified
                 /\ r.threshold > 0
                 /\ r.currentTime >= r.lastModified + ThresholdMs(r.threshold)
                 /\ acked'[Len(acked')].probed = r.lastModified]_vars

\* two commits half a minute apart, the second one decided under a
\* threshold of 0.5 that the operator had put in place of the initial 1
C33_SecondCommitAfterRetune ==
    /\ Len(acked) = 2
    /\ objExists
    /\ ssmValue = <<"0", ".", "5">>
    /\ IsAppend(last) /\ last.resp.status = 200
    /\ objLastModified - acked[2].probed = ThresholdMs(HalfMinute)

(* C34: the gate remembers nothing but the object's LastModified.  That    *)
(* timestamp changes only when an append commits or the operator creates   *)
(* or removes the object, never when an append is rejected; the probe      *)
(* hands the gate the timestamp as the store holds it, and the gate lets   *)
(* the append through iff its clock reads at least the threshold after it, *)
(* whatever was answered or disabled before.                               *)
C34_GateRemembersOnlyLastModified ==
    [][/\ objLastModified' # objLastModified
            => \/ \E r \in InFlight : Commits(r)
               \/ objExists' # objExists
       /\ \A r \in InFlight :
            /\ Moves(r) /\ r.pc = "head" /\ ~Ends(r)
                 => \E q \in BagToSet(inv') :
                        q.pc = "gate" /\ q.lastModified = objLastModified
            /\ Moves(r) /\ r.pc = "gate"
                 => \E k \in ClockSkews :
                        inv' = (inv (-) One(r)) (+)
                               One([r EXCEPT
                                      !.currentTime = now + k,
                                      !.pc = IF now + k - r.lastModified
                                                  >= ThresholdMs(r.threshold)
                                             THEN "get"
                                             ELSE "delete"])]_vars

\* after a commit an append tripped and the stage was deleted; the operator
\* brought the stage back, and the next append, decided a threshold after
\* the commit, has passed the gate and is about to write
C34_AdmittedAfterRecovery ==
    /\ Len(acked) = 1
    /\ IsAppend(last) /\ last.resp.status = 503
    /\ last.log = "Successfully deleted stage"
    /\ stageExists
    /\ \E r \in InFlight :
           /\ r.pc = "put"
           /\ r.lastModified = objLastModified
           /\ ElapsedMs(r) >= ThresholdMs(r.threshold)

\* the number of calls named c in a sequence of calls
Count(calls, c) == Cardinality({k \in DOMAIN calls : calls[k] = c})

AppendStatuses == {200, 404, 503, 500}

(* C35: the step that ends an append answers 200, 404, 503 or 500.  It     *)
(* answers 200 iff it is the PutObject that stored the new content, the    *)
(* one store write of the request; 503 iff the gate tripped (the request   *)
(* was at DeleteStage); 404 only at the probe or at the full read, with    *)
(* the object absent.  Every other step of an append leaves the object and *)
(* the acknowledged appends as they were.                                  *)
C35_AppendStatusPartition ==
    [][\A r \in InFlight :
          IsAppend(r) /\ Moves(r)
              => /\ r.pc \in {"delete", "put"} => Ends(r)
                 /\ Ends(r)
                      => /\ IsAppend(last')
                         /\ last'.resp.status \in AppendStatuses
                         /\ last'.resp.status = 200 <=> Commits(r)
                         /\ last'.resp.status = 200
                              => /\ Count(last'.calls, "PutObject") = 1
                                 /\ objExists'
                                 /\ objContent' = UpdatedContent(r.existingContent, r.body)
                         /\ last'.resp.status = 503 <=> r.pc = "delete"
                         /\ r.pc = "delete"
                              <=> "DeleteStage" \in Range(last'.calls)
                         /\ last'.resp.status = 404
                              => r.pc \in {"head", "get"} /\ ~objExists
                 /\ ~Commits(r)
                      => UNCHANGED <<objExists, objContent, objLastModified, acked>>]_vars

\* an append whose PutObject failed was answered 500 after a commit: the
\* object holds the one acknowledged write and nothing of the failed one
C35_FailedWriteNotAcknowledged ==
    /\ IsAppend(last) /\ last.resp.status = 500
    /\ last.calls = CommitCalls
    /\ Len(acked) = 1
    /\ objExists /\ objContent = seed \o AckedText(acked)

ReadForAppendCalls == <<"GetParameter", "HeadObject", "GetObject">>

(* C36: an append that probed the object, passed the gate and finds the    *)
(* object gone at its full read ends at that step, answered 404 (500 when  *)
(* the call itself failed): it sends no PutObject and no DeleteStage, and  *)
(* the object stays absent.                                                *)
C36_VanishedBeforeRead ==
    [][\A r \in InFlight :
          Moves(r) /\ r.pc = "get" /\ ~objExists
              => /\ Ends(r)
                 /\ last'.resp.status \in {404, 500}
                 /\ last'.resp.msg = IF last'.resp.status = 404
                                     THEN "does not exist, create it first"
                                     ELSE "Error"
                 /\ last'.calls = ReadForAppendCalls
                 /\ ~objExists'
                 /\ UNCHANGED <<objContent, objLastModified, stageExists, acked>>]_vars

\* the operator removed the object after the probe of an append that had
\* passed the gate: the append was answered 404 at its full read
C36_NotFoundAtRead ==
    /\ IsAppend(last) /\ last.resp.status = 404
    /\ last.calls = ReadForAppendCalls
    /\ removed /\ ~objExists
    /\ stageExists
    /\ acked = << >>

(* C38: the guard evaluates every ObjectCreated record of its event: when  *)
(* it returns, no ObjectCreated record is left behind the record it        *)
(* handled last, also when that record failed.                             *)
C38_EveryRecordEvaluated ==
    last.method = "S3"
        => \A k \in 2 .. Len(last.body) : last.body[k] = Other

\* the statuses of the responses a request was sent, in order
Statuses(sent) == [k \in DOMAIN sent |-> sent[k].Status]

(* C31: every request the notification-config handler has ended was sent a *)
(* response: SUCCESS, FAILED, or SUCCESS and then FAILED when the fetch of *)
(* the SUCCESS threw.  SUCCESS was sent iff the put of the configuration   *)
(* succeeded; a request of an unknown type was sent FAILED with no call to *)
(* S3, and so was a Delete whose read of the configuration failed; without *)
(* a successful put the configuration is as it was; the handler ends by an *)
(* exception only when the fetch of its FAILED response threw.             *)
C31_AlwaysAnswers ==
    /\ \A i \in DOMAIN lifecycle :
         LET e == lifecycle[i]
             statuses == Statuses(e.sent)
         IN  /\ statuses \in {<<"SUCCESS">>, <<"FAILED">>, <<"SUCCESS", "FAILED">>}
             /\ statuses[1] = "SUCCESS" <=> e.put
             /\ e.type \notin {"Create", "Update", "Delete"}
                  => statuses = <<"FAILED">> /\ e.got = ""
             /\ e.type = "Delete" /\ e.got = "error" => statuses = <<"FAILED">>
             /\ ~e.put => e.after = e.before
             /\ e.threw <=> ~e.sent[Len(e.sent)].delivered
             /\ e.threw => statuses[Len(statuses)] = "FAILED"
    /\ custom.pc = "success" => custom.put /\ custom.sent = << >>
    /\ custom.sent # << >> => custom.put /\ custom.pc = "failed"
    /\ custom.pc = "idle" => custom = Idle

\* a Create whose put failed was answered FAILED, the configuration of the
\* bucket, with its topic entry, as it was
C31_PutFailureAnswered ==
    \E i \in DOMAIN lifecycle :
        /\ lifecycle[i].type = "Create"
        /\ lifecycle[i].got = "ok" /\ ~lifecycle[i].put
        /\ Statuses(lifecycle[i].sent) = <<"FAILED">>
        /\ lifecycle[i].sent[1].delivered
        /\ lifecycle[i].after.TopicConfigurations = <<"topic">>

\* a request that was answered SUCCESS and nothing else
Succeeded(e) == Statuses(e.sent) = <<"SUCCESS">>

\* a configuration with the Lambda entries of the guard's ARN taken out
WithoutOurs(config) ==
    NotificationConfiguration(OtherLambdaConfigs(config),
                              config.TopicConfigurations,
                              config.QueueConfigurations)

(* C32: a successful Delete leaves the bucket with no Lambda entry of the  *)
(* guard's ARN and with every other Lambda, topic and queue entry as it    *)
(* was; a successful Create followed by a successful Delete leaves the     *)
(* bucket with the entries it had before the Create.                       *)
C32_CleanupRoundTrip ==
    \A i \in DOMAIN lifecycle :
        lifecycle[i].type = "Delete" /\ Succeeded(lifecycle[i])
            => /\ lifecycle[i].after = WithoutOurs(lifecycle[i].before)
               /\ i > 1 /\ lifecycle[i - 1].type = "Create" /\ Succeeded(lifecycle[i - 1])
                    => lifecycle[i].after = lifecycle[i - 1].before

\* the Lambda entries of a configuration that name the guard's ARN
OurEntries(config) ==
    {k \in DOMAIN config.LambdaFunctionConfigurations :
        config.LambdaFunctionConfigurations[k].LambdaFunctionArn = GuardArn}

(* C37: after a successful Create or Update the configuration of the       *)
(* bucket holds exactly one Lambda entry of the guard's ARN, and the other *)
(* Lambda entries, the topic entries and the queue entries the bucket had  *)
(* before the request, whether the read of the configuration succeeded or  *)
(* failed.                                                                 *)
C37_OneEntryOthersKept ==
    \A i \in DOMAIN lifecycle :
        lifecycle[i].type \in {"Create", "Update"} /\ Succeeded(lifecycle[i])
            => /\ Cardinality(OurEntries(lifecycle[i].after)) = 1
               /\ WithoutOurs(lifecycle[i].after) = WithoutOurs(lifecycle[i].before)

====
